---- MODULE Spec2Model ----
(***************************************************************************)
(* Model of tommaso_date_formatter: the library function `format`          *)
(* (src/src/lib.rs) and the interactive front end `main` (src/src/main.rs).*)
(*                                                                         *)
(* A Rust string is modelled as a sequence of one-character strings, so    *)
(* "yy-m" is <<"y","y","-","m">>.  All characters of the model are ASCII,  *)
(* hence byte offsets (match_indices, slicing) and character positions     *)
(* coincide.  Offsets are 0-based as in the source; Slice(s, a, b) is the  *)
(* source's &s[a..b].                                                      *)
(***************************************************************************)
EXTENDS Integers, Sequences, FiniteSets, TLC

VARIABLES
    date,          \* the NaiveDate handed to format / parsed by main
    pattern,       \* the `format` argument of format (already trimmed in main)
    stage,         \* position inside one call of format
    raw_sections,  \* the Vec<&str> returned by split_format
    parts,         \* the Vec<FormatPart> collected at lib.rs:37-40
    result,        \* the value format returned (or the panic that ended it)
    pc,            \* position of main's loop
    out,           \* the last line main wrote
    last_read,     \* outcome of main's last stdin().read_line
    last_write     \* outcome of main's last write/flush of stdout

vars == <<date, pattern, stage, raw_sections, parts, result,
          pc, out, last_read, last_write>>

mainvars == <<pc, out, last_read, last_write>>

\* Longest pattern enumerated exhaustively over Alphabet.
MaxLen == 3

----------------------------------------------------------------------------
\* Strings

Slice(s, a, b) == SubSeq(s, a + 1, b)

\* The decimal digits of a natural number, as core::fmt writes them.
DigitChar(n) ==
    CASE n = 0 -> "0" [] n = 1 -> "1" [] n = 2 -> "2" [] n = 3 -> "3"
      [] n = 4 -> "4" [] n = 5 -> "5" [] n = 6 -> "6" [] n = 7 -> "7"
      [] n = 8 -> "8" [] n = 9 -> "9"

RECURSIVE NatDigits(_)
NatDigits(n) ==
    IF n < 10 THEN <<DigitChar(n)>>
    ELSE Append(NatDigits(n \div 10), DigitChar(n % 10))

\* format!("{}", i) for a signed integer: a minus sign, then the magnitude.
Display(i) ==
    IF i < 0 THEN <<"-">> \o NatDigits(-i) ELSE NatDigits(i)

RECURSIVE Fill(_, _)
Fill(c, n) ==
    IF n <= 0 THEN <<>> ELSE <<c>> \o Fill(c, n - 1)

\* format!("{:0>2}", i): fill character '0', right-aligned, minimum width 2.
\* The fill pads the whole displayed text (sign included); it never truncates.
PadZeroRight2(i) ==
    LET s == Display(i)
    IN  Fill("0", 2 - Len(s)) \o s

\* Rust's `%` on i32: the remainder takes the sign of the dividend.
Rem(a, b) ==
    IF a >= 0 THEN a % b ELSE -((-a) % b)

----------------------------------------------------------------------------
\* Separator, Section, FormatPart (lib.rs:73-156)

\* all::<Separator>(), in declaration order.
SeparatorAll == <<"Slash", "Period", "Hyphen", "Space">>

SeparatorValue(separator) ==
    CASE separator = "Slash"  -> <<"/">>
      [] separator = "Period" -> <<".">>
      [] separator = "Hyphen" -> <<"-">>
      [] separator = "Space"  -> <<" ">>

\* all::<Section>(), in declaration order.
SectionAll == <<"YY", "YYYY", "M", "MM", "MMM", "D", "DD">>

SectionValue(section) ==
    CASE section = "YY"   -> <<"y", "y">>
      [] section = "YYYY" -> <<"y", "y", "y", "y">>
      [] section = "M"    -> <<"m">>
      [] section = "MM"   -> <<"m", "m">>
      [] section = "MMM"  -> <<"m", "m", "m">>
      [] section = "D"    -> <<"d">>
      [] section = "DD"   -> <<"d", "d">>

\* all::<FormatPart>(): every Section variant, then every Separator variant.
FormatPartAll ==
    [i \in 1..Len(SectionAll) |-> [tag |-> "Section", v |-> SectionAll[i]]]
    \o [i \in 1..Len(SeparatorAll) |-> [tag |-> "Separator", v |-> SeparatorAll[i]]]

FormatPartValue(part) ==
    IF part.tag = "Section" THEN SectionValue(part.v) ELSE SeparatorValue(part.v)

----------------------------------------------------------------------------
\* Name tables (lib.rs:158-206); the key of entry i is i.

\* Variant of MONTHS_ABBREVIATED whose last entry (12 => "Dec") is missing.
MonthsAbbreviatedNoDec ==
    << <<"J","a","n">>, <<"F","e","b">>, <<"M","a","r">>, <<"A","p","r">>,
       <<"M","a","y">>, <<"J","u","n">>, <<"J","u","l">>, <<"A","u","g">>,
       <<"S","e","p">>, <<"O","c","t">>, <<"N","o","v">> >>

MONTHS_ABBREVIATED ==
    << <<"J","a","n">>, <<"F","e","b">>, <<"M","a","r">>, <<"A","p","r">>,
       <<"M","a","y">>, <<"J","u","n">>, <<"J","u","l">>, <<"A","u","g">>,
       <<"S","e","p">>, <<"O","c","t">>, <<"N","o","v">>, <<"D","e","c">> >>

MONTHS_WIDE ==
    << <<"J","a","n","u","a","r","y">>, <<"F","e","b","r","u","a","r","y">>,
       <<"M","a","r","c","h">>, <<"A","p","r","i","l">>, <<"M","a","y">>,
       <<"J","u","n","e">>, <<"J","u","l","y">>, <<"A","u","g","u","s","t">>,
       <<"S","e","p","t","e","m","b","e","r">>, <<"O","c","t","o","b","e","r">>,
       <<"N","o","v","e","m","b","e","r">>, <<"D","e","c","e","m","b","e","r">> >>

DAYS_ABBREVIATED ==
    << <<"M","o","n">>, <<"T","u","e">>, <<"W","e","d">>, <<"T","h","u">>,
       <<"F","r","i">>, <<"S","a","t">>, <<"S","u","n">> >>

DAYS_WIDE ==
    << <<"M","o","n","d","a","y">>, <<"T","u","e","s","d","a","y">>,
       <<"W","e","d","n","e","s","d","a","y">>, <<"T","h","u","r","s","d","a","y">>,
       <<"F","r","i","d","a","y">>, <<"S","a","t","u","r","d","a","y">>,
       <<"S","u","n","d","a","y">> >>

\* phf::OrderedMap::get: Some(value) when the key is present, None otherwise.
MapGet(map, key) ==
    IF key \in DOMAIN map
    THEN [some |-> TRUE, v |-> map[key]]
    ELSE [some |-> FALSE, v |-> <<>>]

----------------------------------------------------------------------------
\* split_format (lib.rs:52-71)

\* The closure given to match_indices (lib.rs:55-59): c is one of the
\* separators' values.
IsSeparatorChar(c) ==
    \E i \in 1..Len(SeparatorAll) : SeparatorValue(SeparatorAll[i]) = <<c>>

\* Variant of SplitLoop without the `if last != index` test: the text before a
\* separator is pushed even when it is empty.
RECURSIVE SplitLoopNoGuard(_, _, _, _)
SplitLoopNoGuard(format, index, last, raw) ==
    IF index >= Len(format) THEN [raw |-> raw, last |-> last]
    ELSE IF IsSeparatorChar(format[index + 1])
    THEN LET separator == Slice(format, index, index + 1)
             pushed == Append(raw, Slice(format, last, index))
         IN  SplitLoopNoGuard(format, index + 1, index + Len(separator),
                              Append(pushed, separator))
    ELSE SplitLoopNoGuard(format, index + 1, last, raw)

\* The for loop over match_indices (lib.rs:55-65).  index walks the string;
\* every position holding a separator character is one match (index, separator).
RECURSIVE SplitLoop(_, _, _, _)
SplitLoop(format, index, last, raw) ==
    IF index >= Len(format) THEN [raw |-> raw, last |-> last]
    ELSE IF IsSeparatorChar(format[index + 1])
    THEN LET separator == Slice(format, index, index + 1)
             pushed == IF last # index
                       THEN Append(raw, Slice(format, last, index))
                       ELSE raw
         IN  SplitLoop(format, index + 1, index + Len(separator),
                       Append(pushed, separator))
    ELSE SplitLoop(format, index + 1, last, raw)

\* Variant of split_format without the final flush (lib.rs:66-68): the run
\* after the last separator is lost.
split_formatNoTail(format) ==
    SplitLoop(format, 0, 0, <<>>).raw

split_format(format) ==
    LET r == SplitLoop(format, 0, 0, <<>>)
    IN  IF r.last < Len(format)
        THEN Append(r.raw, Slice(format, r.last, Len(format)))
        ELSE r.raw

----------------------------------------------------------------------------
\* FormatPart::try_from (lib.rs:99-107)

ErrPartNotSupported == "Part not supported: "
ErrNoPartFound == "No part found"

\* all::<FormatPart>().find(|v| v.value() == value): the first variant whose
\* spelling equals value, or the error naming value.
try_from(value) ==
    LET hits == {i \in 1..Len(FormatPartAll) :
                    FormatPartValue(FormatPartAll[i]) = value}
    IN  IF hits = {}
        THEN [ok |-> FALSE, part |-> [tag |-> "None", v |-> "None"],
              err |-> [kind |-> "Err", msg |-> ErrPartNotSupported, text |-> value]]
        ELSE [ok |-> TRUE,
              part |-> FormatPartAll[CHOOSE i \in hits : \A j \in hits : i <= j],
              err |-> [kind |-> "None", msg |-> "", text |-> <<>>]]

\* .map(try_from).collect::<Result<Vec<_>, _>>() (lib.rs:37-40): the parts in
\* order, or the first error; nothing after the first error is resolved.
RECURSIVE Collect(_, _, _)
Collect(raw, i, acc) ==
    IF i > Len(raw) THEN [ok |-> TRUE, parts |-> acc,
                          err |-> [kind |-> "None", msg |-> "", text |-> <<>>]]
    ELSE LET r == try_from(raw[i])
         IN  IF r.ok THEN Collect(raw, i + 1, Append(acc, r.part))
             ELSE [ok |-> FALSE, parts |-> <<>>, err |-> r.err]

\* Variant of Collect that keeps resolving after an error and reports the
\* last unsupported substring instead of the first.
RECURSIVE CollectLastError(_, _, _)
CollectLastError(raw, i, acc) ==
    IF i > Len(raw) THEN acc
    ELSE LET r == try_from(raw[i])
         IN  IF r.ok
             THEN CollectLastError(raw, i + 1,
                      IF acc.ok THEN [acc EXCEPT !.parts = Append(@, r.part)] ELSE acc)
             ELSE CollectLastError(raw, i + 1,
                      [ok |-> FALSE, parts |-> <<>>, err |-> r.err])

\* Variant of Resolve built on CollectLastError.
ResolveLastError(raw) ==
    CollectLastError(raw, 1, [ok |-> TRUE, parts |-> <<>>,
                              err |-> [kind |-> "None", msg |-> "", text |-> <<>>]])

\* lib.rs:37-40 applied to the whole list returned by split_format.
Resolve(raw) ==
    Collect(raw, 1, <<>>)

----------------------------------------------------------------------------
\* Section::format (lib.rs:131-144) and the renderer (lib.rs:42-49)

\* Variant of Section::format in which `m` is zero-padded like `mm`.
SectionFormatPaddedM(section, d) ==
    CASE section = "YY"   -> [panic |-> FALSE, s |-> PadZeroRight2(Rem(d.year, 100))]
      [] section = "YYYY" -> [panic |-> FALSE, s |-> Display(d.year)]
      [] section = "M"    -> [panic |-> FALSE, s |-> PadZeroRight2(d.month)]
      [] section = "MM"   -> [panic |-> FALSE, s |-> PadZeroRight2(d.month)]
      [] section = "MMM"  ->
            LET e == MapGet(MONTHS_ABBREVIATED, d.month % 256)
            IN  IF e.some THEN [panic |-> FALSE, s |-> e.v]
                ELSE [panic |-> TRUE, s |-> <<>>]
      [] section = "D"    -> [panic |-> FALSE, s |-> Display(d.day)]
      [] section = "DD"   -> [panic |-> FALSE, s |-> PadZeroRight2(d.day)]

\* The rendered text of one section, or the panic of expect("month value found").
SectionFormat(section, d) ==
    CASE section = "YY"   -> [panic |-> FALSE, s |-> PadZeroRight2(Rem(d.year, 100))]
      [] section = "YYYY" -> [panic |-> FALSE, s |-> Display(d.year)]
      [] section = "M"    -> [panic |-> FALSE, s |-> Display(d.month)]
      [] section = "MM"   -> [panic |-> FALSE, s |-> PadZeroRight2(d.month)]
      [] section = "MMM"  ->
            LET e == MapGet(MONTHS_ABBREVIATED, d.month % 256)
            IN  IF e.some THEN [panic |-> FALSE, s |-> e.v]
                ELSE [panic |-> TRUE, s |-> <<>>]
      [] section = "D"    -> [panic |-> FALSE, s |-> Display(d.day)]
      [] section = "DD"   -> [panic |-> FALSE, s |-> PadZeroRight2(d.day)]

\* Variant of the map closure in which a separator renders as nothing.
RenderPartNoSeparator(part, d) ==
    IF part.tag = "Section" THEN SectionFormat(part.v, d)
    ELSE [panic |-> FALSE, s |-> <<>>]

\* The closure of the map at lib.rs:44-47.
RenderPart(part, d) ==
    IF part.tag = "Section" THEN SectionFormat(part.v, d)
    ELSE [panic |-> FALSE, s |-> SeparatorValue(part.v)]

\* .reduce(|acc, v| format!("{}{}", acc, v)): the first element seeds acc, each
\* later element is appended.  A panic in the map closure ends the call.
RECURSIVE Reduce(_, _, _, _)
Reduce(ps, d, i, acc) ==
    IF i > Len(ps) THEN [kind |-> "Ok", msg |-> "", text |-> acc]
    ELSE LET v == RenderPart(ps[i], d)
         IN  IF v.panic THEN [kind |-> "Panic", msg |-> "month value found", text |-> <<>>]
             ELSE Reduce(ps, d, i + 1, acc \o v.s)

\* Variant of the renderer that folds from an empty string instead of
\* reducing: no element gives Ok("") and never "No part found".
RenderFold(ps, d) ==
    Reduce(ps, d, 1, <<>>)

\* lib.rs:42-49: reduce gives None for no element, and ok_or turns it into the
\* "No part found" error.
Render(ps, d) ==
    IF Len(ps) = 0
    THEN [kind |-> "Err", msg |-> ErrNoPartFound, text |-> <<>>]
    ELSE LET first == RenderPart(ps[1], d)
         IN  IF first.panic
             THEN [kind |-> "Panic", msg |-> "month value found", text |-> <<>>]
             ELSE Reduce(ps, d, 2, first.s)

\* format (lib.rs:36-50) as one call, the way main uses it.
format(d, f) ==
    LET c == Resolve(split_format(f))
    IN  IF c.ok THEN Render(c.parts, d) ELSE c.err

----------------------------------------------------------------------------
\* Inputs of the library specification

Alphabet == {"y", "m", "d", "q", "-", " "}

Examples ==
    { <<"y","y","y","y","-","m","m","-","d","d">>,
      <<"d"," ","m","m","m"," ","y","y">>,
      <<"y","y","y","y","-","-","m","m">>,
      <<"y","y","-","q","q">>,
      <<"z","z","-","q","q">>,
      <<"d","d","/","m","m","/","y","y","y","y">>,
      <<"d",".","m",".","y","y">>,
      <<"-"," ","/">>,
      <<"/",".","-"," ">>,
      <<"m","m","m","m">>,
      <<"d","d","d","d">>,
      <<"Y","Y">>,
      <<"D","D","-","m">>,
      <<"y","y","y","y","y">>,
      <<"y","y"," ","m","m","m","m">> }

Patterns ==
    UNION {[1..n -> Alphabet] : n \in 0..MaxLen} \cup Examples

\* chrono accepts years far outside 1..9999, negative ones included.
Years == {-2024, -123, -5, 0, 7, 2005, 2024, 9999, 12345}

Dates ==
    {[year |-> y, month |-> 3, day |-> 2] : y \in Years}
    \cup {[year |-> 2024, month |-> m, day |-> d] : m \in 1..12, d \in {2, 10, 28}}
    \cup {[year |-> 2024, month |-> 3, day |-> d] : d \in {1, 9, 31}}

NoDate == [year |-> 0, month |-> 0, day |-> 0]
NoResult == [kind |-> "None", msg |-> "", text |-> <<>>]
NoOut == [label |-> "none", msg |-> "", text |-> <<>>]

----------------------------------------------------------------------------
\* The library specification: one call of format, stage by stage.

Init ==
    /\ date \in Dates
    /\ pattern \in Patterns
    /\ stage = "call"
    /\ raw_sections = <<>>
    /\ parts = <<>>
    /\ result = NoResult
    /\ pc = "lib"
    /\ out = NoOut
    /\ last_read = "none"
    /\ last_write = "none"

\* lib.rs:37: split_format(format)
SplitStep ==
    /\ stage = "call"
    /\ raw_sections' = split_format(pattern)
    /\ stage' = "split"
    /\ UNCHANGED <<date, pattern, parts, result>>
    /\ UNCHANGED mainvars

\* lib.rs:38-40: every substring resolves; the parts are kept.
ResolveOk ==
    /\ stage = "split"
    /\ Resolve(raw_sections).ok
    /\ parts' = Resolve(raw_sections).parts
    /\ stage' = "resolved"
    /\ UNCHANGED <<date, pattern, raw_sections, result>>
    /\ UNCHANGED mainvars

\* lib.rs:38-40: some substring does not resolve; `?` returns the error.
ResolveErr ==
    /\ stage = "split"
    /\ ~Resolve(raw_sections).ok
    /\ result' = Resolve(raw_sections).err
    /\ stage' = "done"
    /\ UNCHANGED <<date, pattern, raw_sections, parts>>
    /\ UNCHANGED mainvars

\* lib.rs:42-49: render and concatenate.
RenderStep ==
    /\ stage = "resolved"
    /\ result' = Render(parts, date)
    /\ stage' = "done"
    /\ UNCHANGED <<date, pattern, raw_sections, parts>>
    /\ UNCHANGED mainvars

Next == SplitStep \/ ResolveOk \/ ResolveErr \/ RenderStep

Spec == Init /\ [][Next]_vars

----------------------------------------------------------------------------
\* The front end: main (main.rs:6-41)

\* char::is_whitespace on the characters the model reads.
IsWhitespace(c) == c \in {" ", "\n", "\t", "\r"}

\* str::trim (main.rs:16, main.rs:34): leading and trailing whitespace removed.
RECURSIVE TrimStart(_)
TrimStart(s) ==
    IF s # <<>> /\ IsWhitespace(Head(s)) THEN TrimStart(Tail(s)) ELSE s

RECURSIVE TrimEnd(_)
TrimEnd(s) ==
    IF s # <<>> /\ IsWhitespace(s[Len(s)])
    THEN TrimEnd(SubSeq(s, 1, Len(s) - 1))
    ELSE s

Trim(s) == TrimEnd(TrimStart(s))

\* What read_line can put in input_date (given as its text after trim), with
\* chrono's NaiveDate::parse_from_str(_, "%Y-%m-%d") tabulated on these texts.
DateTexts ==
    {"2024-03-02", "2005-12-31", "-0123-03-02", "+12345-01-09",
     "2024-13-01", "2023-02-29", "02/03/2024", "hello", ""}

parse_from_str(text) ==
    CASE text = "2024-03-02"   -> [ok |-> TRUE, v |-> [year |-> 2024, month |-> 3, day |-> 2]]
      [] text = "2005-12-31"   -> [ok |-> TRUE, v |-> [year |-> 2005, month |-> 12, day |-> 31]]
      [] text = "-0123-03-02"  -> [ok |-> TRUE, v |-> [year |-> -123, month |-> 3, day |-> 2]]
      [] text = "+12345-01-09" -> [ok |-> TRUE, v |-> [year |-> 12345, month |-> 1, day |-> 9]]
      [] OTHER                 -> [ok |-> FALSE, v |-> NoDate]

\* What read_line can put in input_format: a line with its newline, a last line
\* without one, or nothing at end of input.
FormatLines ==
    { <<"y","y","y","y","-","m","m","-","d","d","\n">>,
      <<"d"," ","m","m","m"," ","y","y","\n">>,
      <<" ","y","y"," ","\r","\n">>,
      <<"y","y","-","q","q","\n">>,
      <<"m","m","m","m","\n">>,
      <<"d","d","/","m","m">>,
      <<"-","\n">>,
      <<"Y","Y","\n">>,
      <<"m",".","d","\n">>,
      <<"\n">>,
      <<>> }

MainInit ==
    /\ date = NoDate
    /\ pattern = <<>>
    /\ stage = "main"
    /\ raw_sections = <<>>
    /\ parts = <<>>
    /\ result = NoResult
    /\ pc = "prompt_date"
    /\ out = NoOut
    /\ last_read = "none"
    /\ last_write = "none"

\* A write or flush of stdout that fails makes print!/println!/unwrap panic.
Panicked ==
    /\ pc' = "panicked"
    /\ last_write' = "err"
    /\ UNCHANGED <<date, pattern, result, out>>

\* main.rs:7-9: a new iteration; print!("Insert date (YYYY-MM-DD): "), flush.
PromptDate ==
    /\ pc = "prompt_date"
    /\ \E written \in BOOLEAN :
          IF written
          THEN /\ pc' = "read_date"
               /\ out' = [label |-> "Insert date (YYYY-MM-DD): ", msg |-> "", text |-> <<>>]
               /\ last_write' = "ok"
               /\ date' = NoDate
               /\ pattern' = <<>>
               /\ result' = NoResult
          ELSE Panicked
    /\ UNCHANGED <<stage, raw_sections, parts, last_read>>

\* main.rs:11-14: read_line fails; eprintln!, std::process::exit(1).
ReadDateFail ==
    /\ pc = "read_date"
    /\ last_read' = "err"
    /\ pc' = "exited"
    /\ UNCHANGED <<date, pattern, stage, raw_sections, parts, result, out, last_write>>

\* Variant of the bad-date branch that ends the process instead of continuing.
ReadDateBadExits ==
    /\ pc = "read_date"
    /\ \E text \in DateTexts :
          /\ ~parse_from_str(text).ok
          /\ last_read' = "ok"
          /\ pc' = "exited"
          /\ out' = [label |-> "Error: ", msg |-> "date", text |-> <<>>]
          /\ last_write' = "ok"
          /\ UNCHANGED <<date, pattern, result>>
    /\ UNCHANGED <<stage, raw_sections, parts>>

\* main.rs:15-23: the date does not parse; println!("Error: {}", e), flush,
\* continue.
ReadDateBad ==
    /\ pc = "read_date"
    /\ \E text \in DateTexts :
          /\ ~parse_from_str(text).ok
          /\ last_read' = "ok"
          /\ \E written \in BOOLEAN :
                IF written
                THEN /\ pc' = "prompt_date"
                     /\ out' = [label |-> "Error: ", msg |-> "date", text |-> <<>>]
                     /\ last_write' = "ok"
                     /\ UNCHANGED <<date, pattern, result>>
                ELSE Panicked
    /\ UNCHANGED <<stage, raw_sections, parts>>

\* main.rs:15-17: the date parses.
ReadDateOk ==
    /\ pc = "read_date"
    /\ \E text \in DateTexts :
          /\ parse_from_str(text).ok
          /\ date' = parse_from_str(text).v
    /\ last_read' = "ok"
    /\ pc' = "prompt_format"
    /\ UNCHANGED <<pattern, stage, raw_sections, parts, result, out, last_write>>

\* main.rs:26-27: print!("Insert format: "), flush.
PromptFormat ==
    /\ pc = "prompt_format"
    /\ \E written \in BOOLEAN :
          IF written
          THEN /\ pc' = "read_format"
               /\ out' = [label |-> "Insert format: ", msg |-> "", text |-> <<>>]
               /\ last_write' = "ok"
               /\ UNCHANGED <<date, pattern, result>>
          ELSE Panicked
    /\ UNCHANGED <<stage, raw_sections, parts, last_read>>

\* main.rs:29-32: read_line fails; eprintln!, std::process::exit(1).
ReadFormatFail ==
    /\ pc = "read_format"
    /\ last_read' = "err"
    /\ pc' = "exited"
    /\ UNCHANGED <<date, pattern, stage, raw_sections, parts, result, out, last_write>>

\* main.rs:28-39: the line is read, trimmed and formatted; the result or the
\* error is printed; the loop starts over.  A panic inside format ends main.
ReadFormat ==
    /\ pc = "read_format"
    /\ \E line \in FormatLines :
          LET f == Trim(line)
              r == format(date, f)
          IN  /\ last_read' = "ok"
              /\ pattern' = f
              /\ result' = r
              /\ IF r.kind = "Panic"
                 THEN /\ pc' = "panicked"
                      /\ UNCHANGED <<out, last_write>>
                 ELSE \E written \in BOOLEAN :
                        IF written
                        THEN /\ pc' = "prompt_date"
                             /\ last_write' = "ok"
                             /\ out' = IF r.kind = "Ok"
                                       THEN [label |-> "Formatted date: ",
                                             msg |-> "", text |-> r.text]
                                       ELSE [label |-> "Error: ",
                                             msg |-> r.msg, text |-> r.text]
                        ELSE /\ pc' = "panicked"
                             /\ last_write' = "err"
                             /\ UNCHANGED out
    /\ UNCHANGED <<date, stage, raw_sections, parts>>

MainNext ==
    \/ PromptDate
    \/ ReadDateFail
    \/ ReadDateBad
    \/ ReadDateOk
    \/ PromptFormat
    \/ ReadFormatFail
    \/ ReadFormat

MainSpec == MainInit /\ [][MainNext]_vars

----------------------------------------------------------------------------
\* Vocabulary of the properties below, written from the specification.

SepChars == {"/", ".", "-", " "}

\* The concatenation of a list of strings.
RECURSIVE Flatten(_)
Flatten(ss) ==
    IF ss = <<>> THEN <<>> ELSE Head(ss) \o Flatten(Tail(ss))

Vocabulary ==
    { <<"y","y">>, <<"y","y","y","y">>, <<"m">>, <<"m","m">>, <<"m","m","m">>,
      <<"d">>, <<"d","d">>, <<"/">>, <<".">>, <<"-">>, <<" ">> }

IsSepString(s) == Len(s) = 1 /\ s[1] \in SepChars
IsRun(s) == Len(s) >= 1 /\ \A k \in 1..Len(s) : s[k] \notin SepChars
IsDigitChar(c) == c \in {"0", "1", "2", "3", "4", "5", "6", "7", "8", "9"}

\* A number 0..99 written with exactly two digits, and written without padding.
TwoDigits(n) == <<DigitChar(n \div 10), DigitChar(n % 10)>>
Unpadded(n) == IF n < 10 THEN <<DigitChar(n)>> ELSE TwoDigits(n)

SplitDone == stage \in {"split", "resolved", "done"}
Returned == stage = "done"

P_yyyy_mm_dd == <<"y","y","y","y","-","m","m","-","d","d">>
P_d_mmm_yy == <<"d"," ","m","m","m"," ","y","y">>
P_yyyy__mm == <<"y","y","y","y","-","-","m","m">>
P_yy_qq == <<"y","y","-","q","q">>
P_zz_qq == <<"z","z","-","q","q">>
D_2024_03_02 == [year |-> 2024, month |-> 3, day |-> 2]

\* C1: concatenating the substrings returned by split_format, in order, gives
\* back exactly the format string, for every format string (the empty one too).
C1_SplitConcatIsInput ==
    SplitDone => Flatten(raw_sections) = pattern

\* split_format has returned four substrings for "yyyy--mm".
C1_Witness ==
    /\ stage = "split"
    /\ pattern = P_yyyy__mm
    /\ Len(raw_sections) = 4

\* C2: every substring returned by split_format is one separator character or
\* a non-empty run of non-separator characters; no substring is empty, no run
\* holds a separator, two runs are never adjacent, every separator character
\* of the input is a substring of its own, and the empty string gives the
\* empty list.
C2_SplitShape ==
    SplitDone =>
        /\ \A i \in 1..Len(raw_sections) :
              /\ raw_sections[i] # <<>>
              /\ IsSepString(raw_sections[i]) \/ IsRun(raw_sections[i])
        /\ \A i \in 1..(Len(raw_sections) - 1) :
              ~(IsRun(raw_sections[i]) /\ IsRun(raw_sections[i + 1]))
        /\ Cardinality({i \in 1..Len(raw_sections) : IsSepString(raw_sections[i])})
              = Cardinality({k \in 1..Len(pattern) : pattern[k] \in SepChars})
        /\ (pattern = <<>> => raw_sections = <<>>)
        /\ (pattern = P_yyyy__mm =>
              raw_sections = << <<"y","y","y","y">>, <<"-">>, <<"-">>, <<"m","m">> >>)

\* Two adjacent separators came out as two substrings, after a run.
C2_Witness ==
    /\ stage = "split"
    /\ Len(raw_sections) >= 3
    /\ IsRun(raw_sections[1]) /\ Len(raw_sections[1]) >= 2
    /\ IsSepString(raw_sections[2])
    /\ IsSepString(raw_sections[3])

C4_EmptyPatternNoPartFound ==
    (Returned /\ pattern = <<>>) =>
        /\ raw_sections = <<>>
        /\ parts = <<>>
        /\ result = [kind |-> "Err", msg |-> "No part found", text |-> <<>>]

C4_Witness ==
    /\ Returned
    /\ pattern = <<>>
    /\ result.kind = "Err"
    /\ date.year < 0

AllSeparators(p) == p # <<>> /\ \A k \in 1..Len(p) : p[k] \in SepChars

\* C5 as stated: a non-empty pattern made only of separator characters makes
\* format fail.
C5_AllSeparatorsFail ==
    (Returned /\ AllSeparators(pattern)) => result.kind = "Err"

\* C5 amended: a non-empty pattern made only of separator characters makes
\* format succeed, and the rendered string is the pattern itself.
C5_AllSeparatorsRenderVerbatim ==
    (Returned /\ AllSeparators(pattern)) =>
        result = [kind |-> "Ok", msg |-> "", text |-> pattern]

C5_Witness ==
    /\ Returned
    /\ pattern = <<"-"," ","/">>
    /\ result.kind = "Ok"

\* C6: for any valid date, years below 1 and above 9999 included, dd, mm and yy
\* each render to exactly 2 characters, and yy is the last two digits of the
\* year, zero-padded.
C6_TwoCharacterSections ==
    (Returned /\ pattern \in {<<"d","d">>, <<"m","m">>, <<"y","y">>}) =>
        /\ result.kind = "Ok"
        /\ Len(result.text) = 2
        /\ pattern = <<"y","y">> =>
              /\ \A k \in 1..Len(result.text) : IsDigitChar(result.text[k])
              /\ date.year >= 0 => result.text = TwoDigits(date.year % 100)

\* C7: format accepts mmmm, ddd and dddd: mmmm renders the month in full, ddd
\* a weekday abbreviation and dddd a weekday in full, instead of failing with
\* "Part not supported".
C7_WideSectionsAccepted ==
    Returned =>
        /\ pattern = <<"m","m","m","m">> =>
              result = [kind |-> "Ok", msg |-> "", text |-> MONTHS_WIDE[date.month]]
        /\ pattern = <<"d","d","d">> =>
              /\ result.kind = "Ok"
              /\ \E w \in DOMAIN DAYS_ABBREVIATED : result.text = DAYS_ABBREVIATED[w]
        /\ pattern = <<"d","d","d","d">> =>
              /\ result.kind = "Ok"
              /\ \E w \in DOMAIN DAYS_WIDE : result.text = DAYS_WIDE[w]

\* The rendering the specification gives one vocabulary token, from the token
\* and the date alone.  (The digits of yy are the subject of C6; here yy stands
\* for whatever the yy section renders on its own.)
ExpectedToken(tok, d) ==
    CASE tok = <<"y","y","y","y">> -> Display(d.year)
      [] tok = <<"y","y">>         -> SectionFormat("YY", d).s
      [] tok = <<"m">>             -> Unpadded(d.month)
      [] tok = <<"m","m">>         -> TwoDigits(d.month)
      [] tok = <<"m","m","m">>     -> MONTHS_ABBREVIATED[d.month]
      [] tok = <<"d">>             -> Unpadded(d.day)
      [] tok = <<"d","d">>         -> TwoDigits(d.day)
      [] OTHER                     -> tok

C10_FormatTotal ==
    /\ \A m \in 1..12 : MapGet(MONTHS_ABBREVIATED, m).some
    /\ ~Returned => ENABLED Next
    /\ Returned =>
          /\ result.kind \in {"Ok", "Err"}
          /\ result.kind = "Err" =>
                result.msg \in {"Part not supported: ", "No part found"}

C10_Witness ==
    /\ Returned
    /\ date.month = 12
    /\ pattern = <<"m","m","m">>
    /\ result = [kind |-> "Ok", msg |-> "", text |-> <<"D","e","c">>]

----------------------------------------------------------------------------
\* The front end

Ended(p) == p \in {"exited", "panicked"}

\* The step in which read_line succeeded and the date did not parse.
BadDateStep == pc = "read_date" /\ last_read' = "ok" /\ date' = NoDate

\* The step in which read_line succeeded and format rejected the pattern.
BadPatternStep == pc = "read_format" /\ last_read' = "ok" /\ result'.kind = "Err"

====
